---- MODULE Spec2Model ----
(***************************************************************************)
(* FIFO page-replacement simulator (src/fifo-simulator.js).                *)
(*                                                                         *)
(* The state is the global framesCount, the DOM nodes the script writes    *)
(* (RAM display, history table, table header, the last alert) and, for     *)
(* every call of runSimulation, the variables its closure holds (frames,   *)
(* queue, step, requiredPages, the locals of the latest nextStep call) and *)
(* whether a setTimeout(nextStep) is pending.                              *)
(*                                                                         *)
(* Strings are sequences of character codes: 0..9 are the digits, DashChar *)
(* is "-", LetterChar is a letter.  A text field is the sequence of its    *)
(* whitespace-separated tokens (what trim() and split(/\s+/) return).      *)
(***************************************************************************)
EXTENDS Integers, Sequences, FiniteSets, TLC

VARIABLES framesCount, framesValue, ramDisplay, historyTableBody,
          tableHeader, alertMsg, runs

vars == <<framesCount, framesValue, ramDisplay, historyTableBody,
          tableHeader, alertMsg, runs>>

(***************************************************************************)
(* Bounds of the model.                                                    *)
(***************************************************************************)
\* pages of a valid reference string are 1..MaxPage
MaxPage == 4
\* valid reference strings have at most MaxLen pages
MaxLen == 5
\* required-page lists have at most MaxReq pages
MaxReq == 2

(***************************************************************************)
(* Program constants.                                                      *)
(***************************************************************************)
MinFrames == 3
MaxFrames == 5
MaxRefLen == 10

\* JavaScript values that are no page number
null == 0 - 1
NaN == 0 - 2
undefined == 0 - 3

\* character codes beside the digits 0..9
DashChar == 10
LetterChar == 11

(***************************************************************************)
(* Array.prototype helpers, on 1-based sequences; indices handed to and    *)
(* returned from them are 0-based as in the source.                        *)
(***************************************************************************)
Includes(arr, x) == \E i \in DOMAIN arr : arr[i] = x

LastIndexOf(arr, x) ==
    IF Includes(arr, x)
    THEN (CHOOSE i \in DOMAIN arr :
              arr[i] = x /\ \A j \in DOMAIN arr : arr[j] = x => j <= i) - 1
    ELSE 0 - 1

IndexOf(arr, x) ==
    IF Includes(arr, x)
    THEN (CHOOSE i \in DOMAIN arr :
              arr[i] = x /\ \A j \in DOMAIN arr : arr[j] = x => i <= j) - 1
    ELSE 0 - 1

\* arr[idx], undefined beyond the end
At(arr, idx) == IF idx + 1 \in DOMAIN arr THEN arr[idx + 1] ELSE undefined

\* arr with arr[idx] = v
SetAt(arr, idx, v) == [arr EXCEPT ![idx + 1] = v]

\* arr.splice(idx, 1)
Splice(arr, idx) ==
    [k \in 1..(Len(arr) - 1) |-> IF k <= idx THEN arr[k] ELSE arr[k + 1]]

\* Array(n).fill(v)
Fill(n, v) == [k \in 1..n |-> v]

(***************************************************************************)
(* Number(token) and the number-to-string conversion of template strings   *)
(* and textContent.                                                        *)
(***************************************************************************)
RECURSIVE Decimal(_)
Decimal(tok) ==
    IF Len(tok) = 0 THEN 0
    ELSE 10 * Decimal(SubSeq(tok, 1, Len(tok) - 1)) + tok[Len(tok)]

Number(tok) ==
    IF \A i \in DOMAIN tok : tok[i] \in 0..9 THEN Decimal(tok) ELSE NaN

isNaN(x) == x = NaN

RECURSIVE ToText(_)
ToText(n) == IF n < 10 THEN <<n>> ELSE ToText(n \div 10) \o <<n % 10>>

\* f !== null ? f : "-"   (undefined becomes the empty textContent)
CellText(f) ==
    IF f = null THEN <<DashChar>>
    ELSE IF f = undefined THEN <<>>
    ELSE ToText(f)

(***************************************************************************)
(* renderRamShells: framesCount shells, each showing a dash.               *)
(***************************************************************************)
renderRamShells(n) == [k \in 1..n |-> [text |-> <<DashChar>>, fault |-> FALSE]]

(***************************************************************************)
(* The parts of nextStep.                                                  *)
(***************************************************************************)
\* line 141: the callback returns without scheduling another one
EarlyReturnKeepsTimer(run) == [run EXCEPT !.timer = TRUE]

EarlyReturn(run) == [run EXCEPT !.timer = FALSE]

\* lines 148-152: a miss is marked as a fault while pages are still required
MarkFaultOnHit(isPageInRAM, showPageFault, requiredPages) ==
    showPageFault /\ Len(requiredPages) > 0

MarkFaultUntracked(isPageInRAM, showPageFault, requiredPages) == ~isPageInRAM

MarkFault(isPageInRAM, showPageFault, requiredPages) ==
    ~isPageInRAM /\ showPageFault /\ Len(requiredPages) > 0

\* lines 155-163: place the page in the first empty frame, else in the frame
\* at the front of the queue
InsertPageLIFO(frames, queue, page) ==
    IF Includes(frames, null)
    THEN LET emptyIndex == IndexOf(frames, null)
         IN  [frames |-> SetAt(frames, emptyIndex, page),
              queue  |-> Append(queue, emptyIndex)]
    ELSE LET removeIndex == queue[Len(queue)]
         IN  [frames |-> SetAt(frames, removeIndex, page),
              queue  |-> queue]

InsertPageGrows(frames, queue, page) ==
    [frames |-> Append(frames, page), queue |-> Append(queue, Len(frames))]

InsertPageNoRequeue(frames, queue, page) ==
    IF Includes(frames, null)
    THEN LET emptyIndex == IndexOf(frames, null)
         IN  [frames |-> SetAt(frames, emptyIndex, page),
              queue  |-> Append(queue, emptyIndex)]
    ELSE LET removeIndex == Head(queue)
         IN  [frames |-> SetAt(frames, removeIndex, page),
              queue  |-> Tail(queue)]

InsertPageShift(frames, queue, page) ==
    IF Includes(frames, null)
    THEN LET emptyIndex == IndexOf(frames, null)
         IN  [frames |-> SetAt(frames, emptyIndex, page),
              queue  |-> Append(queue, emptyIndex)]
    ELSE [frames |-> Append(Tail(frames), page), queue |-> queue]

InsertPage(frames, queue, page) ==
    IF Includes(frames, null)
    THEN LET emptyIndex == IndexOf(frames, null)
         IN  [frames |-> SetAt(frames, emptyIndex, page),
              queue  |-> Append(queue, emptyIndex)]
    ELSE LET removeIndex == Head(queue)
         IN  [frames |-> SetAt(frames, removeIndex, page),
              queue  |-> Append(Tail(queue), removeIndex)]

\* lines 148, 154-164: only a page that is not in a frame is placed
PlaceAlways(isPageInRAM, frames, queue, page) == InsertPage(frames, queue, page)

Place(isPageInRAM, frames, queue, page) ==
    IF ~isPageInRAM
    THEN InsertPage(frames, queue, page)
    ELSE [frames |-> frames, queue |-> queue]

\* lines 168-172: walk requiredPages from its last index down to 0 and
\* splice out every page that is in a frame
RECURSIVE RemoveFrom(_, _, _)
RemoveFrom(requiredPages, i, frames) ==
    IF i < 0 THEN requiredPages
    ELSE IF Includes(frames, At(requiredPages, i))
         THEN RemoveFrom(Splice(requiredPages, i), i - 1, frames)
         ELSE RemoveFrom(requiredPages, i - 1, frames)

RemoveLoadedInverted(requiredPages, frames) ==
    SelectSeq(requiredPages, LAMBDA p : Includes(frames, p))

RemoveLoaded(requiredPages, frames) ==
    RemoveFrom(requiredPages, Len(requiredPages) - 1, frames)

\* line 175: no fault once nothing is required any more
ClearFaultNever(fault, requiredPages) == fault

ClearFault(fault, requiredPages) ==
    IF Len(requiredPages) = 0 THEN FALSE ELSE fault

\* line 196: the run stops once nothing is required any more
StopNowUntracked(requiredPages, showPageFault) == Len(requiredPages) = 0

StopNowNever(requiredPages, showPageFault) == FALSE

StopNow(requiredPages, showPageFault) ==
    Len(requiredPages) = 0 /\ showPageFault

\* lines 179-184: every shell shows its frame; with fault tracking the shell
\* of the page just placed is highlighted on a fault
UpdateRam(ram, frames, page, fault, showPageFault) ==
    [k \in DOMAIN ram |->
        [text  |-> CellText(At(frames, k - 1)),
         fault |-> IF showPageFault
                   THEN fault /\ At(frames, k - 1) = page
                   ELSE ram[k].fault]]

\* lines 187-190: the cells of the row; the frames cell keeps its parts apart
\* (they are joined with " | ", which no part contains)
HistoryRow(step, page, frames, fault, showPageFault) ==
    <<ToText(step + 1), ToText(page), [k \in DOMAIN frames |-> CellText(frames[k])]>>
    \o (IF showPageFault THEN <<IF fault THEN "YES" ELSE "NO">> ELSE <<>>)

\* lines 140-200: one call of nextStep on the closure `run`
nextStep(run, ram, table) ==
    IF run.step >= Len(run.referenceString)
    THEN [run |-> EarlyReturn(run), ram |-> ram, table |-> table]
    ELSE LET page == At(run.referenceString, run.step)
             isPageInRAM == Includes(run.frames, page)
             marked == MarkFault(isPageInRAM, run.showPageFault, run.requiredPages)
             placed == Place(isPageInRAM, run.frames, run.queue, page)
             tracked == Len(run.requiredPages) > 0
             required == IF tracked
                         THEN RemoveLoaded(run.requiredPages, placed.frames)
                         ELSE run.requiredPages
             fault == IF tracked THEN ClearFault(marked, required) ELSE marked
         IN  [run |-> [run EXCEPT !.frames = placed.frames,
                                  !.queue = placed.queue,
                                  !.requiredPages = required,
                                  !.page = page,
                                  !.isPageInRAM = isPageInRAM,
                                  !.fault = fault,
                                  !.step = run.step + 1,
                                  !.timer = ~StopNow(required, run.showPageFault)],
              ram |-> UpdateRam(ram, placed.frames, page, fault, run.showPageFault),
              table |-> Append(table, HistoryRow(run.step, page, placed.frames,
                                                 fault, run.showPageFault))]

\* lines 126-131: the closure runSimulation creates, before its first nextStep
NewRunSharedFrames(referenceString, requiredPagesInput, showPageFault, n) ==
    [referenceString    |-> referenceString,
     requiredPagesInput |-> requiredPagesInput,
     showPageFault      |-> showPageFault,
     frames             |-> IF runs = <<>> THEN Fill(n, null)
                            ELSE runs[Len(runs)].frames,
     queue              |-> IF runs = <<>> THEN <<>> ELSE runs[Len(runs)].queue,
     step               |-> 0,
     requiredPages      |-> requiredPagesInput,
     page               |-> undefined,
     isPageInRAM        |-> FALSE,
     fault              |-> FALSE,
     timer              |-> FALSE]

NewRun(referenceString, requiredPagesInput, showPageFault, n) ==
    [referenceString    |-> referenceString,
     requiredPagesInput |-> requiredPagesInput,
     showPageFault      |-> showPageFault,
     frames             |-> Fill(n, null),
     queue              |-> <<>>,
     step               |-> 0,
     requiredPages      |-> requiredPagesInput,
     page               |-> undefined,
     isPageInRAM        |-> FALSE,
     fault              |-> FALSE,
     timer              |-> FALSE]

(***************************************************************************)
(* What the user can type.                                                 *)
(***************************************************************************)
\* the values the frames slider can take: the accepted ones and one on
\* either side of them
FrameChoices == (MinFrames - 1)..(MaxFrames + 1)

\* Reference strings up to renaming of pages: the first page is 1 and a page
\* never seen before is the next unused number.
MaxOf(S) == CHOOSE m \in S : \A x \in S : x <= m

RefStrings ==
    UNION {{s \in [1..n -> 1..MaxPage] :
               \A i \in 1..n : s[i] <= 1 + MaxOf({0} \cup {s[j] : j \in 1..(i - 1)})}
           : n \in 1..MaxLen}

TextOf(s) == [i \in DOMAIN s |-> ToText(s[i])]

\* the empty field, a non-numeric token, and strings of MaxRefLen and
\* MaxRefLen + 1 pages
RefTexts ==
    {TextOf(s) : s \in RefStrings}
    \cup {<<>>, <<ToText(1), <<LetterChar>>>>}
    \cup {[i \in 1..n |-> ToText(1 + (i % 2))] : n \in {MaxRefLen, MaxRefLen + 1}}

\* Required pages: ascending lists without repetition, a list with a
\* repetition, a descending list, the empty field and a non-numeric token.
ReqLists ==
    {r \in UNION {[1..n -> 1..MaxPage] : n \in 0..MaxReq} :
        \A i, j \in DOMAIN r : i < j => r[i] < r[j]}
    \cup {<<2, 2>>, <<2, 1>>}

ReqTexts == {TextOf(r) : r \in ReqLists} \cup {<<<<LetterChar>>>>}

(***************************************************************************)
(* The script's top level: lines 28 and 103.                               *)
(***************************************************************************)
Init ==
    /\ framesCount \in FrameChoices
    /\ framesValue = framesCount
    /\ ramDisplay = renderRamShells(framesCount)
    /\ historyTableBody = <<>>
    /\ tableHeader = <<>>
    /\ alertMsg = ""
    /\ runs = <<>>

(***************************************************************************)
(* lines 35-39: the slider's input handler.                                *)
(***************************************************************************)
FramesRangeInput ==
    \E v \in FrameChoices :
        /\ framesCount' = v
        /\ framesValue' = v
        /\ ramDisplay' = renderRamShells(v)
        /\ UNCHANGED <<historyTableBody, tableHeader, alertMsg, runs>>

(***************************************************************************)
(* lines 42-84 and 116-131, 204: the Start button's click handler, with    *)
(* the call of runSimulation and the first, synchronous, call of nextStep. *)
(* alertMsg is the alert the latest click raised, "" when it raised none.  *)
(***************************************************************************)
Alert(msg) ==
    /\ alertMsg' = msg
    /\ UNCHANGED <<framesCount, framesValue, ramDisplay, historyTableBody,
                   tableHeader, runs>>

Header(showPageFault) ==
    IF showPageFault THEN <<"Step", "Page", "Frames", "Page Fault">>
    ELSE <<"Step", "Page", "Frames">>

runSimulation(referenceString, requiredPagesInput, showPageFault) ==
    \E first \in {nextStep(NewRun(referenceString, requiredPagesInput,
                                   showPageFault, framesCount),
                            renderRamShells(framesCount), <<>>)} :
        /\ runs' = Append(runs, first.run)
        /\ ramDisplay' = first.ram
        /\ historyTableBody' = first.table
        /\ tableHeader' = Header(showPageFault)
        /\ alertMsg' = ""
        /\ UNCHANGED <<framesCount, framesValue>>

\* line 57
FrameSizeBelowRange(n) == n < MinFrames

FrameSizeOutOfRange(n) == n < MinFrames \/ n > MaxFrames

StartClick(refText, requiredText) ==
    LET pages == [i \in DOMAIN refText |-> Number(refText[i])]
        requiredPages == [i \in DOMAIN requiredText |-> Number(requiredText[i])]
    IN  IF refText = <<>>
        THEN Alert("Please enter a reference string!")
        ELSE IF \E i \in DOMAIN pages : isNaN(pages[i])
        THEN Alert("Reference string must contain only numbers separated by spaces!")
        ELSE IF FrameSizeOutOfRange(framesCount)
        THEN Alert("Frame size must be between 3 and 5!")
        ELSE IF Len(pages) > MaxRefLen
        THEN Alert("Reference string must have fewer than 10 elements!")
        ELSE IF requiredText # <<>> /\ \E i \in DOMAIN requiredPages : isNaN(requiredPages[i])
        THEN Alert("Required memory items must contain only numbers separated by spaces!")
        ELSE runSimulation(pages, requiredPages, requiredText # <<>>)

(***************************************************************************)
(* line 199: a pending timer fires and calls nextStep.                     *)
(***************************************************************************)
TimerFires(r) ==
    /\ r \in DOMAIN runs
    /\ runs[r].timer
    /\ \E next \in {nextStep(runs[r], ramDisplay, historyTableBody)} :
           /\ runs' = [runs EXCEPT ![r] = next.run]
           /\ ramDisplay' = next.ram
           /\ historyTableBody' = next.table
    /\ UNCHANGED <<framesCount, framesValue, tableHeader, alertMsg>>

(***************************************************************************)
(* Spec: one simulation.  The slider is moved at any time; Start is        *)
(* clicked, with any input, until a click starts the simulation; the       *)
(* timers then run it.                                                     *)
(***************************************************************************)
Start ==
    /\ runs = <<>>
    /\ \E refText \in RefTexts, requiredText \in ReqTexts :
           StartClick(refText, requiredText)

Timer == \E r \in DOMAIN runs : TimerFires(r)

Next == Start \/ Timer \/ FramesRangeInput

Spec == Init /\ [][Next]_vars

\* The timed playback on its own: the slider is left alone after the page
\* has loaded, and every pending timer eventually fires.
Playback == Start \/ Timer

FairSpec == Init /\ [][Playback]_vars /\ WF_vars(Timer)

(***************************************************************************)
(* MultiSpec: overlapping simulations.  Start is clicked again, up to      *)
(* MaxRuns successful clicks, while timers of earlier simulations are      *)
(* pending; the timers fire in any order and the slider is moved at any    *)
(* time.  The reference strings are short: `1` and `1 2`, with or without  *)
(* the required page 2, and the inputs the click handler rejects.          *)
(***************************************************************************)
MaxRuns == 2

MultiRefTexts ==
    {TextOf(<<1>>), TextOf(<<1, 2>>), <<>>, <<ToText(1), <<LetterChar>>>>}

MultiReqTexts == {<<>>, TextOf(<<2>>), <<<<LetterChar>>>>}

StartAgain ==
    /\ Len(runs) < MaxRuns
    /\ \E refText \in MultiRefTexts, requiredText \in MultiReqTexts :
           StartClick(refText, requiredText)

MultiNext == StartAgain \/ Timer \/ FramesRangeInput

MultiSpec == Init /\ [][MultiNext]_vars

(***************************************************************************)
(* Vocabulary of the properties.  Under Spec there is one simulation, so   *)
(* the history table holds exactly the rows of its steps: row k is the     *)
(* Simulation Step k (step number, page, Frame Bank snapshot, fault flag). *)
(***************************************************************************)
Range(f) == {f[i] : i \in DOMAIN f}

\* the pages held by a Frame Bank
Resident(frames) == Range(frames) \ {null}

\* the indices (0-based) of the occupied frames
Occupied(frames) == {i \in 0..(Len(frames) - 1) : At(frames, i) # null}

\* the pages in the Frame Bank snapshot of row k; none before the first row
RowPage(k) == Number(historyTableBody[k][2])

ResidentAt(k) ==
    IF k = 0 THEN {}
    ELSE {Number(c) : c \in Range(historyTableBody[k][3])} \ {NaN}

\* the pages that were resident after some step up to step k
EverResident(k) == UNION {ResidentAt(j) : j \in 1..k}

RowMiss(k) == RowPage(k) \notin ResidentAt(k - 1)

RowFault(k) == historyTableBody[k][4] = "YES"

\* every required page has been resident after some step up to step k
Complete(run, k) == Range(run.requiredPagesInput) \subseteq EverResident(k)

\* Reference FIFO: the resident pages in arrival order after k steps of
\* reference string ref with n frames; a miss on a full bank evicts the head.
RECURSIVE RefFifo(_, _, _)
RefFifo(ref, k, n) ==
    IF k = 0 THEN <<>>
    ELSE LET prev == RefFifo(ref, k - 1, n)
             p == ref[k]
         IN  IF p \in Range(prev) THEN prev
             ELSE IF Len(prev) < n THEN Append(prev, p)
             ELSE Append(Tail(prev), p)

\* run r has just processed a page
Stepped(r) == r \in DOMAIN runs /\ runs'[r].step = runs[r].step + 1

(***************************************************************************)
(* C1: after every step of a run the Frame Bank holds the pages of the     *)
(* reference FIFO, and a miss on a full Frame Bank overwrites exactly the   *)
(* page at the head of the reference FIFO, the longest-resident one.       *)
(***************************************************************************)
C1_FifoEviction ==
    [][\A r \in DOMAIN runs' :
         (r \notin DOMAIN runs \/ Stepped(r)) =>
         LET new == runs'[r]
             fifo == RefFifo(new.referenceString, new.step, Len(new.frames))
         IN  /\ Resident(new.frames) = Range(fifo)
             /\ Cardinality(Occupied(new.frames)) = Len(fifo)
             /\ (/\ Stepped(r)
                 /\ ~Includes(runs[r].frames, new.page)
                 /\ ~Includes(runs[r].frames, null))
                => LET before == RefFifo(runs[r].referenceString, runs[r].step,
                                         Len(runs[r].frames))
                   IN  /\ Resident(runs[r].frames) \ Resident(new.frames)
                              = {Head(before)}
                       /\ Resident(new.frames) \ Resident(runs[r].frames)
                              = {new.page}]_vars

\* 3 frames, reference 1,2,3,4,1,...: step 4 evicted page 1, step 5 page 2
C1_Witness ==
    \E r \in DOMAIN runs :
        /\ Len(runs[r].frames) = 3
        /\ runs[r].step = 5
        /\ SubSeq(runs[r].referenceString, 1, 5) = <<1, 2, 3, 4, 1>>
        /\ runs[r].frames = <<4, 1, 3>>

(***************************************************************************)
(* C2: with required pages, the step that makes every required page have   *)
(* been resident at least once signals no fault, is the last step of the   *)
(* run and leaves no callback pending; so no step at or after that point   *)
(* signals a fault.                                                        *)
(***************************************************************************)
C2_DrainedStopsWithoutFault ==
    \A r \in DOMAIN runs :
        runs[r].showPageFault =>
            \A k \in 1..Len(historyTableBody) :
                Complete(runs[r], k) =>
                    /\ ~RowFault(k)
                    /\ k = Len(historyTableBody)
                    /\ k = runs[r].step
                    /\ ~runs[r].timer

\* the completing step is a miss, and pages of the reference string remain
C2_Witness ==
    \E r \in DOMAIN runs :
        /\ runs[r].showPageFault
        /\ runs[r].step = Len(historyTableBody)
        /\ Complete(runs[r], runs[r].step)
        /\ RowMiss(runs[r].step)
        /\ runs[r].step > 1
        /\ runs[r].step < Len(runs[r].referenceString)

(***************************************************************************)
(* C3 as stated: a run that stopped because nothing is required any more   *)
(* has every required page in the Frame Bank at that instant.              *)
(***************************************************************************)
StoppedLoaded(run) ==
    run.showPageFault /\ ~run.timer /\ Len(run.requiredPages) = 0

C3_AsStated ==
    \A r \in DOMAIN runs :
        StoppedLoaded(runs[r]) =>
            Range(runs[r].requiredPagesInput) \subseteq Resident(runs[r].frames)

(***************************************************************************)
(* C3 amended: a run that stopped because nothing is required any more has *)
(* had every required page in the Frame Bank after some step of the run,   *)
(* and the page of its last step is in the Frame Bank.                     *)
(***************************************************************************)
C3_StoppedCumulative ==
    \A r \in DOMAIN runs :
        StoppedLoaded(runs[r]) =>
            /\ runs[r].step = Len(historyTableBody)
            /\ \A p \in Range(runs[r].requiredPagesInput) :
                   \E k \in 1..runs[r].step : p \in ResidentAt(k)
            /\ runs[r].page \in Resident(runs[r].frames)

\* stopped as loaded although a required page has been evicted
C3_Witness ==
    \E r \in DOMAIN runs :
        /\ StoppedLoaded(runs[r])
        /\ \E p \in Range(runs[r].requiredPagesInput) :
               p \notin Resident(runs[r].frames)

(***************************************************************************)
(* C4: a step on a page that is in the Frame Bank leaves the Frame Bank    *)
(* and the Replacement Queue as they are and signals no fault.             *)
(***************************************************************************)
C4_HitChangesNothing ==
    [][\A r \in DOMAIN runs :
         (Stepped(r) /\ Includes(runs[r].frames,
                                 At(runs[r].referenceString, runs[r].step)))
         => /\ runs'[r].frames = runs[r].frames
            /\ runs'[r].queue = runs[r].queue
            /\ runs'[r].fault = FALSE
            /\ runs'[r].showPageFault
                   => historyTableBody'[Len(historyTableBody')][4] = "NO"]_vars

\* a hit on a full Frame Bank while pages are still required
C4_Witness ==
    \E r \in DOMAIN runs :
        /\ runs[r].isPageInRAM
        /\ ~Includes(runs[r].frames, null)
        /\ runs[r].showPageFault
        /\ Len(runs[r].requiredPages) > 0

(***************************************************************************)
(* C5: the Frame Bank of a run has exactly N slots, N >= 1 the frame count  *)
(* at the click that started the run, in every state from then on, and at  *)
(* most N of them are occupied.                                            *)
(***************************************************************************)
C5_FrameBankSize ==
    [][\A r \in DOMAIN runs' :
         /\ r \notin DOMAIN runs => Len(runs'[r].frames) = framesCount
         /\ r \in DOMAIN runs => Len(runs'[r].frames) = Len(runs[r].frames)
         /\ Len(runs'[r].frames) >= 1
         /\ Cardinality(Occupied(runs'[r].frames)) <= Len(runs'[r].frames)]_vars

\* a full Frame Bank after an eviction
C5_Witness ==
    \E r \in DOMAIN runs :
        /\ Cardinality(Occupied(runs[r].frames)) = Len(runs[r].frames)
        /\ runs[r].step > Len(runs[r].frames)
        /\ ~runs[r].isPageInRAM

(***************************************************************************)
(* C6: the Replacement Queue lists the indices of the occupied frames,     *)
(* each once, in the order their pages arrived (the reference FIFO's       *)
(* order), so its front is the frame of the longest-resident page.         *)
(***************************************************************************)
C6_QueueIsFillOrder ==
    \A r \in DOMAIN runs :
        LET run == runs[r]
            fifo == RefFifo(run.referenceString, run.step, Len(run.frames))
        IN  /\ Range(run.queue) = Occupied(run.frames)
            /\ Len(run.queue) = Cardinality(Occupied(run.frames))
            /\ [i \in DOMAIN run.queue |-> At(run.frames, run.queue[i])] = fifo
            /\ Len(run.queue) > 0 => At(run.frames, Head(run.queue)) = Head(fifo)

\* after two evictions the queue has rotated: its front is no longer frame 0
C6_Witness ==
    \E r \in DOMAIN runs :
        /\ ~Includes(runs[r].frames, null)
        /\ Head(runs[r].queue) = 2
        /\ runs[r].step >= 5

(***************************************************************************)
(* C7: with fault tracking, the fault flag of a step is YES exactly when   *)
(* the step is a miss and some required page has not been resident after   *)
(* any step so far; a YES step is a miss after which some required page is *)
(* not in the Frame Bank.                                                  *)
(***************************************************************************)
C7_FaultIffMissAndUnseen ==
    \A r \in DOMAIN runs :
        runs[r].showPageFault =>
            \A k \in 1..Len(historyTableBody) :
                /\ RowFault(k) <=> (RowMiss(k) /\ ~Complete(runs[r], k))
                /\ RowFault(k) =>
                       /\ RowMiss(k)
                       /\ \E p \in Range(runs[r].requiredPagesInput) :
                              p \notin ResidentAt(k)

\* a miss with fault YES followed by a hit, and a miss with fault NO
C7_Witness ==
    \E r \in DOMAIN runs :
        /\ runs[r].showPageFault
        /\ Len(historyTableBody) >= 3
        /\ \E k \in 1..Len(historyTableBody) : RowFault(k)
        /\ \E k \in 1..Len(historyTableBody) : ~RowMiss(k)
        /\ RowMiss(Len(historyTableBody))
        /\ ~RowFault(Len(historyTableBody))

(***************************************************************************)
(* C8 as stated: with fault tracking, the fault flag of a step is false    *)
(* exactly when the Frame Bank holds every required page after the step,   *)
(* or the step is a hit.                                                   *)
(***************************************************************************)
C8_AsStated ==
    \A r \in DOMAIN runs :
        runs[r].showPageFault =>
            (runs[r].fault = FALSE
                <=> \/ Range(runs[r].requiredPagesInput)
                           \subseteq Resident(runs[r].frames)
                    \/ runs[r].isPageInRAM)

(***************************************************************************)
(* C8 amended: with fault tracking, the fault flag of a step is false      *)
(* exactly when every required page has been in the Frame Bank after this  *)
(* or an earlier step of the run, or the step is a hit.                    *)
(***************************************************************************)
C8_NoFaultIffSeenOrHit ==
    \A r \in DOMAIN runs :
        runs[r].showPageFault =>
            /\ runs[r].step = Len(historyTableBody)
            /\ runs[r].fault = FALSE
                   <=> \/ \A p \in Range(runs[r].requiredPagesInput) :
                              \E k \in 1..runs[r].step : p \in ResidentAt(k)
                       \/ runs[r].isPageInRAM

\* a miss without fault after which a required page is not in the Frame Bank
C8_Witness ==
    \E r \in DOMAIN runs :
        /\ runs[r].showPageFault
        /\ ~runs[r].isPageInRAM
        /\ runs[r].fault = FALSE
        /\ ~(Range(runs[r].requiredPagesInput) \subseteq Resident(runs[r].frames))

(***************************************************************************)
(* C9: the steps of a run are the pages of the reference string, one row   *)
(* per page in order; the run halts only when the reference string is      *)
(* exhausted or, with fault tracking, at the first step that completes the *)
(* required pages, and it does halt there.                                 *)
(***************************************************************************)
C9_StopsAtEarlierPoint ==
    \A r \in DOMAIN runs :
        LET run == runs[r]
            exhausted == run.step = Len(run.referenceString)
            completed == run.showPageFault /\ Complete(run, run.step)
        IN  /\ run.step = Len(historyTableBody)
            /\ run.step <= Len(run.referenceString)
            /\ \A k \in 1..run.step :
                   /\ historyTableBody[k][1] = ToText(k)
                   /\ RowPage(k) = run.referenceString[k]
            /\ ~run.timer => (exhausted \/ completed)
            /\ completed => ~run.timer
            /\ run.showPageFault =>
                   \A k \in 1..(run.step - 1) : ~Complete(run, k)

\* without required pages a run of four or more pages reached its last page
C9_Witness ==
    \E r \in DOMAIN runs :
        /\ ~runs[r].showPageFault
        /\ Len(runs[r].referenceString) >= 4
        /\ runs[r].step = Len(runs[r].referenceString)
        /\ ~runs[r].timer

(***************************************************************************)
(* C10: a run never processes more steps than the reference string has     *)
(* pages, and once started it reaches a state without a pending callback.  *)
(***************************************************************************)
NoCallbackPending == \A r \in DOMAIN runs : ~runs[r].timer

C10_Terminates ==
    /\ [](\A r \in DOMAIN runs : runs[r].step <= Len(runs[r].referenceString))
    /\ (runs # <<>>) ~> (runs # <<>> /\ NoCallbackPending)

\* halted by exhaustion: the callback after the last page found nothing left
C10_Witness ==
    \E r \in DOMAIN runs :
        /\ ~runs[r].timer
        /\ runs[r].step = Len(runs[r].referenceString)
        /\ runs[r].showPageFault
        /\ Len(runs[r].requiredPages) > 0

(***************************************************************************)
(* C11: without required pages the fault flag of every step is false: no   *)
(* row has a fault cell and no shell is highlighted.                       *)
(***************************************************************************)
C11_UntrackedNeverFaults ==
    \A r \in DOMAIN runs :
        ~runs[r].showPageFault =>
            /\ runs[r].fault = FALSE
            /\ Len(runs[r].requiredPagesInput) = 0
            /\ \A k \in DOMAIN historyTableBody : Len(historyTableBody[k]) = 3
            /\ \A k \in DOMAIN ramDisplay : ~ramDisplay[k].fault

\* without required pages, a miss that evicted a page
C11_Witness ==
    \E r \in DOMAIN runs :
        /\ ~runs[r].showPageFault
        /\ ~runs[r].isPageInRAM
        /\ runs[r].step > Len(runs[r].frames)

(***************************************************************************)
(* C15 as stated: a click whose reference string has 10 or more pages      *)
(* starts no run, so no run has a reference string of 10 or more pages.    *)
(***************************************************************************)
C15_AsStated ==
    \A r \in DOMAIN runs : Len(runs[r].referenceString) < MaxRefLen

(***************************************************************************)
(* C17: the pages in the frames of a run are pairwise distinct.            *)
(***************************************************************************)
C17_NoDuplicatePage ==
    \A r \in DOMAIN runs :
        \A i, j \in DOMAIN runs[r].frames :
            (runs[r].frames[i] = runs[r].frames[j] /\ runs[r].frames[i] # null)
                => i = j

\* a hit on a full Frame Bank
C17_Witness ==
    \E r \in DOMAIN runs :
        /\ runs[r].isPageInRAM
        /\ ~Includes(runs[r].frames, null)
        /\ runs[r].step > Len(runs[r].frames)

(***************************************************************************)
(* C18: the occupied frames are 0..k-1; while a frame is empty the queue   *)
(* is 0,1,...,k-1; once the bank is full the queue is a rotation of        *)
(* 0,...,N-1, and an eviction overwrites the slot after the one the        *)
(* previous eviction overwrote, starting with slot 0.                      *)
(***************************************************************************)
\* queue is s, s+1, ..., N-1, 0, ..., s-1
Rotation(queue, s, n) ==
    /\ Len(queue) = n
    /\ \A i \in 1..n : queue[i] = (s + i - 1) % n

\* the slots (0-based) in which two Frame Banks differ
Changed(old, new) == {i \in 0..(Len(new) - 1) : At(old, i) # At(new, i)}

C18_RoundRobin ==
    [][\A r \in DOMAIN runs' :
         (r \notin DOMAIN runs \/ Stepped(r)) =>
         LET new == runs'[r]
             n == Len(new.frames)
             k == Cardinality(Occupied(new.frames))
         IN  /\ Occupied(new.frames) = 0..(k - 1)
             /\ k < n => new.queue = [i \in 1..k |-> i - 1]
             /\ k = n => \E s \in 0..(n - 1) : Rotation(new.queue, s, n)
             /\ Stepped(r) => Occupied(runs[r].frames) \subseteq Occupied(new.frames)
             /\ (Stepped(r) /\ ~new.isPageInRAM /\ ~Includes(runs[r].frames, null))
                => \E s \in 0..(n - 1) :
                       /\ Rotation(runs[r].queue, s, n)
                       /\ Changed(runs[r].frames, new.frames) = {s}
                       /\ Rotation(new.queue, (s + 1) % n, n)
             /\ (Stepped(r) /\ ~new.isPageInRAM /\ Includes(runs[r].frames, null))
                => /\ Changed(runs[r].frames, new.frames) = {k - 1}
                   /\ new.queue = [i \in 1..k |-> i - 1]]_vars

\* 3 frames, two evictions: slots 0 and 1 were overwritten, slot 2 is next
C18_Witness ==
    \E r \in DOMAIN runs :
        /\ Len(runs[r].frames) = 3
        /\ runs[r].queue = <<2, 0, 1>>
        /\ runs[r].step = 5

(***************************************************************************)
(* C19: after a step its page is in the Frame Bank; a miss changes exactly *)
(* one slot, which receives the page, and a hit changes none.              *)
(***************************************************************************)
C19_OneSlotPerMiss ==
    [][\A r \in DOMAIN runs' :
         (r \notin DOMAIN runs \/ Stepped(r)) =>
         LET new == runs'[r]
             old == IF r \in DOMAIN runs THEN runs[r].frames
                    ELSE Fill(Len(new.frames), null)
         IN  /\ new.page = new.referenceString[new.step]
             /\ Includes(new.frames, new.page)
             /\ Len(new.frames) = Len(old)
             /\ new.isPageInRAM <=> Includes(old, new.page)
             /\ ~new.isPageInRAM =>
                    \E i \in 0..(Len(old) - 1) :
                        /\ Changed(old, new.frames) = {i}
                        /\ At(new.frames, i) = new.page
             /\ new.isPageInRAM => Changed(old, new.frames) = {}]_vars

\* a miss that overwrote a slot other than slot 0
C19_Witness ==
    \E r \in DOMAIN runs :
        /\ ~runs[r].isPageInRAM
        /\ ~Includes(runs[r].frames, null)
        /\ At(runs[r].frames, 1) = runs[r].page
        /\ runs[r].step > Len(runs[r].frames) + 1

(***************************************************************************)
(* Vocabulary of the properties of overlapping simulations.                *)
(***************************************************************************)
\* the runs with a pending nextStep callback
Pending == {r \in DOMAIN runs : runs[r].timer}

\* no further page of the run will be processed
Finished(run) == ~run.timer \/ run.step >= Len(run.referenceString)

(***************************************************************************)
(* C12 as stated: at most one run has a pending nextStep callback, and the *)
(* rows of the history table are rows of the latest run, which cleared the *)
(* table when it started.                                                  *)
(***************************************************************************)
C12_AsStated ==
    /\ Cardinality(Pending) <= 1
    /\ runs # <<>> =>
           LET latest == runs[Len(runs)]
           IN  /\ Len(historyTableBody) <= latest.step
               /\ \A k \in DOMAIN historyTableBody :
                      /\ historyTableBody[k][1] = ToText(k)
                      /\ historyTableBody[k][2] = ToText(latest.referenceString[k])

(***************************************************************************)
(* C13: a run starts from an all-empty Frame Bank of framesCount slots, an *)
(* empty queue and step 0 (so after its first, synchronous step it holds   *)
(* its first page in slot 0 and nothing else), whatever the other runs     *)
(* are; and no step of another run, no later click and no move of the      *)
(* slider changes the closure of a run.                                    *)
(***************************************************************************)
C13_RunsAreIsolated ==
    [][\A r \in DOMAIN runs' :
         LET new == runs'[r]
         IN  /\ r \notin DOMAIN runs =>
                   /\ new.frames = [Fill(framesCount, null) EXCEPT
                                        ![1] = new.referenceString[1]]
                   /\ new.queue = <<0>>
                   /\ new.step = 1
                   /\ new.requiredPages =
                          SelectSeq(new.requiredPagesInput,
                                    LAMBDA p : p # new.referenceString[1])
                   /\ \A q \in DOMAIN runs : runs'[q] = runs[q]
             /\ (r \in DOMAIN runs /\ new # runs[r]) =>
                   /\ runs[r].timer
                   /\ Len(runs') = Len(runs)
                   /\ framesCount' = framesCount
                   /\ \A q \in DOMAIN runs : q # r => runs'[q] = runs[q]
                   /\ Len(new.frames) = Len(runs[r].frames)
                   /\ new.referenceString = runs[r].referenceString
             /\ (r \in DOMAIN runs /\ framesCount' # framesCount) =>
                   new = runs[r]]_vars

\* the second run was started while the first was running, and the slider
\* has been moved since both started
C13_Witness ==
    /\ Len(runs) = 2
    /\ runs[1].timer
    /\ runs[1].step = 1
    /\ runs[2].step = 2
    /\ Len(runs[1].frames) # Len(runs[2].frames)
    /\ framesCount \notin {Len(runs[1].frames), Len(runs[2].frames)}

(***************************************************************************)
(* C14: two runs with the same reference string, frame count and required  *)
(* pages are, after the same number of steps, in the same state: same      *)
(* page, Frame Bank, queue, fault flag, remaining required pages, and both *)
(* have finished or neither has.                                           *)
(***************************************************************************)
SameInputs(a, b) ==
    /\ a.referenceString = b.referenceString
    /\ a.requiredPagesInput = b.requiredPagesInput
    /\ a.showPageFault = b.showPageFault
    /\ Len(a.frames) = Len(b.frames)

C16_RejectedClicks ==
    [][/\ \A r \in DOMAIN runs' :
              /\ Len(runs'[r].referenceString) > 0
              /\ ~Includes(runs'[r].referenceString, NaN)
              /\ ~Includes(runs'[r].requiredPagesInput, NaN)
              /\ Len(runs'[r].frames) \in MinFrames..MaxFrames
       /\ framesCount \notin MinFrames..MaxFrames => Len(runs') = Len(runs)
       /\ (alertMsg' # alertMsg /\ alertMsg' # "") =>
              /\ runs' = runs
              /\ historyTableBody' = historyTableBody
              /\ tableHeader' = tableHeader
              /\ ramDisplay' = ramDisplay]_vars

\* a click was rejected for the frame count while a simulation is running
C16_Witness ==
    /\ alertMsg = "Frame size must be between 3 and 5!"
    /\ framesCount > MaxFrames
    /\ Pending # {}
    /\ historyTableBody # <<>>

====
